---- MODULE Spec2Model ----
(***************************************************************************)
(* A model of src/notion/new.py: the identifier validator, the result      *)
(* normalizer (safe_execute), the two pagination aggregators and the tool  *)
(* operations layered on them.  The collaborator (the wrapped workspace    *)
(* API client) is the environment: every call it receives is answered by a *)
(* nondeterministically chosen return value or fault.                      *)
(***************************************************************************)
EXTENDS Integers, Sequences, FiniteSets, TLC

VARIABLES
    pc,            \* position of the current invocation
    op,            \* name of the operation invoked
    args,          \* the arguments it was invoked with
    calls,         \* collaborator calls issued so far, each with its answer
    ret,           \* the envelope returned to the caller
    world,         \* what the collaborator holds behind the answers
    all_results,   \* accumulator of a pagination aggregator
    start_cursor,  \* cursor variable of a pagination aggregator
    candidate,     \* input handed to validate_notion_id
    verdict        \* what validate_notion_id returned for it

vars == <<pc, op, args, calls, ret, world, all_results, start_cursor, candidate, verdict>>

-----------------------------------------------------------------------------
(* Python values.  A value carries a tag t; identifiers are strings held   *)
(* as sequences of characters so that the pattern can look at each one.    *)

None == [t |-> "none"]
Absent == [t |-> "absent"]
PyInt(n) == [t |-> "int", n |-> n]
PyStr(s) == [t |-> "str", s |-> s]
PyBool(b) == [t |-> "bool", b |-> b]
PyDict(map) == [t |-> "dict", map |-> map]
EmptyMap == [t |-> "emptymap"]
NoRet == [t |-> "noret"]
NoWorld == [t |-> "noworld"]

\* Python truthiness of a value: None, 0, the empty string, the empty
\* container are false.
Truthy(v) ==
    CASE v.t = "none" -> FALSE
      [] v.t = "absent" -> FALSE
      [] v.t = "int" -> v.n # 0
      [] v.t = "bool" -> v.b
      [] v.t = "str" -> Len(v.s) > 0
      [] v.t = "list" -> Len(v.items) > 0
      [] v.t = "emptymap" -> FALSE
      [] v.t = "dict" -> DOMAIN v.map # {}
      [] OTHER -> TRUE

\* dict.get(key): an absent key reads as None.
Get(field) == IF field.t = "absent" THEN None ELSE field

\* dict.get(key, default): only an absent key reads as the default.
GetOr(field, default) == IF field.t = "absent" THEN default ELSE field

-----------------------------------------------------------------------------
(* validate_notion_id and its pattern ^[0-9a-fA-F-]{32,36}$                *)

MinIdLen == 32
MaxIdLen == 36

HexDigits ==
    {"0", "1", "2", "3", "4", "5", "6", "7", "8", "9",
     "a", "b", "c", "d", "e", "f", "A", "B", "C", "D", "E", "F"}

\* the character class [0-9a-fA-F-]
IdChar(c) == c \in HexDigits \cup {"-"}

\* "$" outside MULTILINE mode: the end of the string, or just before a
\* line terminator that ends the string.  pos characters were consumed.
AtDollar(s, pos) ==
    \/ pos = Len(s)
    \/ pos = Len(s) - 1 /\ s[Len(s)] = "\n"

\* _UUID_RE.match(s): anchored at the start, between MinIdLen and MaxIdLen
\* characters of the class, then "$".
UUID_RE_match(s) ==
    \E n \in MinIdLen..MaxIdLen :
        /\ n <= Len(s)
        /\ \A i \in 1..n : IdChar(s[i])
        /\ AtDollar(s, n)

validate_notion_id(notion_id) ==
    IF ~Truthy(notion_id) \/ notion_id.t # "str"
    THEN FALSE
    ELSE UUID_RE_match(notion_id.s)

-----------------------------------------------------------------------------
(* Inputs of the validator: a run of one class character, optionally with  *)
(* a character before it and a few after it.                               *)

MaxFill == 38
MaxTail == 2

Rep(c, k) == [i \in 1..k |-> c]

FillChars == {"0", "a", "F", "-"}
OtherChars == {"\n", "g", " ", "f"}

SeqsUpTo(S, n) == UNION {[1..k -> S] : k \in 0..n}

CandidateStrings ==
    {pre \o Rep(c, k) \o tail :
        pre \in SeqsUpTo({"g", "\n"}, 1),
        c \in FillChars,
        k \in 0..MaxFill,
        tail \in SeqsUpTo(OtherChars, MaxTail)}

Candidates == {None, PyInt(0), PyInt(7)} \cup {PyStr(s) : s \in CandidateStrings}

InitVal ==
    /\ pc = "input"
    /\ candidate \in Candidates
    /\ verdict = FALSE
    /\ op = "validate_notion_id"
    /\ args = None
    /\ calls = <<>>
    /\ ret = NoRet
    /\ world = NoWorld
    /\ all_results = <<>>
    /\ start_cursor = None

Validate ==
    /\ pc = "input"
    /\ verdict' = validate_notion_id(candidate)
    /\ pc' = "validated"
    /\ UNCHANGED <<op, args, calls, ret, world, all_results, start_cursor, candidate>>

NextVal == Validate

SpecVal == InitVal /\ [][NextVal]_vars

-----------------------------------------------------------------------------
(* The result normalizer.  The collaborator answers a call with a return   *)
(* value (kind "ok") or by raising a fault that carries a message.         *)

Ok(val) == [kind |-> "ok", val |-> val]
Fault(msg) == [kind |-> "fault", msg |-> msg]

Envelope(successful, data, error) ==
    [successful |-> successful, data |-> data, error |-> error]

\* str(e): the fault's message, whatever the fault's type.
str(e) == PyStr(e.msg)

safe_execute(resp) ==
    IF resp.kind = "ok"
    THEN Envelope(TRUE, resp.val, None)
    ELSE Envelope(FALSE, EmptyMap, str(resp))

\* the failure envelope the operations build themselves
Failure(msg) == Envelope(FALSE, EmptyMap, PyStr(msg))

\* One collaborator call routed through safe_execute: the endpoint, the
\* keyword arguments sent, the answer and the envelope made of it.
CallRec(endpoint, kwargs, resp) ==
    [endpoint |-> endpoint, kwargs |-> kwargs, resp |-> resp, env |-> safe_execute(resp)]

\* keyword arguments: a mapping from names to values
NoKw == [k \in {} |-> None]
If(cond, kw) == IF cond THEN kw ELSE NoKw

-----------------------------------------------------------------------------
(* The pagination aggregators _collect_all_pages_query and                 *)
(* _collect_all_blocks.  One action per loop iteration: a call is issued,  *)
(* the collaborator answers it, the answer is folded into the accumulator. *)

MaxPages == 3
DefaultPageSize == 100

GoodId == PyStr(Rep("a", MinIdLen))
OtherGoodId == PyStr(Rep("0", MinIdLen))

FaultMsgs == {"", "API token is invalid."}
Faults == {Fault(m) : m \in FaultMsgs}

PyList(items) == [t |-> "list", items |-> items]

\* a page of a listing: a mapping that may hold "results" and "next_cursor"
Listing(results, next_cursor) ==
    [t |-> "listing", results |-> results, next_cursor |-> next_cursor]

ItemLists == {<<"i1">>, <<"i2", "i1">>}
Cursors == {Absent, None, PyStr(""), PyStr("c1"), PyStr("c2")}

Listings ==
    {Listing(r, c) : r \in {Absent} \cup {PyList(l) : l \in ItemLists}, c \in Cursors}

\* an answer after which no further page is asked for by any reading of
\* the cursor: a fault, or a cursor that is not a non-empty string
LastAnswer(resp) ==
    \/ resp.kind = "fault"
    \/ ~Truthy(Get(resp.val.next_cursor))

\* what the collaborator may answer to the n-th call of one aggregation:
\* anything, but a listing has at most MaxPages pages
PageResponses(n) ==
    {r \in Faults \cup {Ok(l) : l \in Listings} :
        n >= MaxPages => LastAnswer(r)}

\* kwargs = {<id field>: id, "page_size": page_size}, plus start_cursor
\* when the cursor variable is truthy
AggKwargs_drops_cursor(idname, subject, page_size, cursor) ==
    (idname :> subject) @@ [page_size |-> page_size]

AggKwargs(idname, subject, page_size, cursor) ==
    (idname :> subject) @@ [page_size |-> page_size]
        @@ If(Truthy(cursor), [start_cursor |-> cursor])

\* a variant that keeps only the page just read
Extend_overwrite(acc, page_data) == GetOr(page_data.results, PyList(<<>>)).items

\* all_results.extend(page_data.get("results", []))
Extend(acc, page_data) == acc \o GetOr(page_data.results, PyList(<<>>)).items

\* a variant that leaves the loop after the first page
MoreToFetch_never(cursor) == FALSE

\* "if not start_cursor: break" read the other way: the loop goes on
MoreToFetch(cursor) == Truthy(cursor)

\* a variant that hands back what was collected before the failure
AggAbort_partial(res, acc) ==
    [res EXCEPT !.data = [t |-> "collected", results |-> PyList(acc)]]

\* "if not res['successful']: return res"
AggAbort(res, acc) == res

\* the envelope built after the loop
AggSuccess(acc) == Envelope(TRUE, [t |-> "collected", results |-> PyList(acc)], None)

AggVarsUnchanged == UNCHANGED <<world, candidate, verdict>>

AggStart(name) ==
    /\ pc = "idle"
    /\ \E subject \in {GoodId, OtherGoodId} :
          args' = [subject |-> subject, page_size |-> DefaultPageSize]
    /\ op' = name
    /\ all_results' = <<>>
    /\ start_cursor' = None
    /\ calls' = <<>>
    /\ ret' = NoRet
    /\ pc' = "loop"
    /\ AggVarsUnchanged

AggIter(name, idname, endpoint) ==
    /\ pc = "loop"
    /\ op = name
    /\ \E resp \in PageResponses(Len(calls) + 1) :
          LET kwargs == AggKwargs(idname, args.subject, args.page_size, start_cursor)
              c == CallRec(endpoint, kwargs, resp)
              res == c.env
          IN  /\ calls' = Append(calls, c)
              /\ IF ~res.successful
                 THEN /\ ret' = AggAbort(res, all_results)
                      /\ pc' = "done"
                      /\ UNCHANGED <<all_results, start_cursor>>
                 ELSE LET acc == Extend(all_results, res.data)
                          cur == Get(res.data.next_cursor)
                      IN  /\ all_results' = acc
                          /\ start_cursor' = cur
                          /\ IF MoreToFetch(cur)
                             THEN pc' = "loop" /\ ret' = NoRet
                             ELSE pc' = "done" /\ ret' = AggSuccess(acc)
    /\ UNCHANGED <<op, args>>
    /\ AggVarsUnchanged

collect_all_pages_query_start == AggStart("_collect_all_pages_query")
collect_all_pages_query_iter ==
    AggIter("_collect_all_pages_query", "database_id", "databases.query")

collect_all_blocks_start == AggStart("_collect_all_blocks")
collect_all_blocks_iter ==
    AggIter("_collect_all_blocks", "block_id", "blocks.children.list")

\* the caller has the outcome; the next invocation starts afresh
AggReturned ==
    /\ pc = "done"
    /\ pc' = "idle"
    /\ op' = "none"
    /\ args' = NoKw
    /\ calls' = <<>>
    /\ ret' = NoRet
    /\ all_results' = <<>>
    /\ start_cursor' = None
    /\ AggVarsUnchanged

InitAgg ==
    /\ pc = "idle"
    /\ op = "none"
    /\ args = NoKw
    /\ calls = <<>>
    /\ ret = NoRet
    /\ world = NoWorld
    /\ all_results = <<>>
    /\ start_cursor = None
    /\ candidate = None
    /\ verdict = FALSE

NextAgg ==
    \/ collect_all_pages_query_start
    \/ collect_all_pages_query_iter
    \/ collect_all_blocks_start
    \/ collect_all_blocks_iter
    \/ AggReturned

SpecAgg == InitAgg /\ [][NextAgg]_vars

\* the loop is synchronous code: once started, an iteration that can run does
SpecAggLive ==
    /\ SpecAgg
    /\ WF_vars(collect_all_pages_query_iter)
    /\ WF_vars(collect_all_blocks_iter)

-----------------------------------------------------------------------------
(* Aggregations running side by side.  The hosting runtime may run several *)
(* invocations at once; each is a call frame with its own all_results and  *)
(* start_cursor.  Here every variable of an invocation is a function of    *)
(* the invocation's number, and a step is one loop iteration of one of     *)
(* them, so the page fetches of the invocations interleave in any order.   *)

NumInvocations == 2
ParMaxPages == 2

Invocations == 1..NumInvocations

ParFaults == {Fault("API token is invalid.")}
ParItemLists == {<<"i1">>, <<"i2">>}
\* a page that ends the listing, or one more page to come
ParListings ==
    {Listing(PyList(l), None) : l \in ParItemLists}
    \cup {Listing(PyList(<<"i1">>), PyStr("c1"))}

ParResponses(n) ==
    {r \in ParFaults \cup {Ok(l) : l \in ParListings} :
        n >= ParMaxPages => LastAnswer(r)}

\* a variant with all_results and start_cursor kept at module level, one
\* pair for every invocation
Frame_module_level(i) == 1

\* all_results and start_cursor are locals: invocation i reads and writes
\* the pair of its own call frame
Frame(i) == i

ParStart(i, name) ==
    /\ pc[i] = "idle"
    /\ \E subject \in {GoodId, OtherGoodId} :
          args' = [args EXCEPT ![i] = [subject |-> subject, page_size |-> DefaultPageSize]]
    /\ op' = [op EXCEPT ![i] = name]
    /\ all_results' = [all_results EXCEPT ![Frame(i)] = <<>>]
    /\ start_cursor' = [start_cursor EXCEPT ![Frame(i)] = None]
    /\ calls' = [calls EXCEPT ![i] = <<>>]
    /\ ret' = [ret EXCEPT ![i] = NoRet]
    /\ pc' = [pc EXCEPT ![i] = "loop"]
    /\ AggVarsUnchanged

ParIter(i, name, idname, endpoint) ==
    /\ pc[i] = "loop"
    /\ op[i] = name
    /\ \E resp \in ParResponses(Len(calls[i]) + 1) :
          LET kwargs == AggKwargs(idname, args[i].subject, args[i].page_size,
                                  start_cursor[Frame(i)])
              c == CallRec(endpoint, kwargs, resp)
              res == c.env
          IN  /\ calls' = [calls EXCEPT ![i] = Append(calls[i], c)]
              /\ IF ~res.successful
                 THEN /\ ret' = [ret EXCEPT ![i] = AggAbort(res, all_results[Frame(i)])]
                      /\ pc' = [pc EXCEPT ![i] = "done"]
                      /\ UNCHANGED <<all_results, start_cursor>>
                 ELSE LET acc == Extend(all_results[Frame(i)], res.data)
                          cur == Get(res.data.next_cursor)
                      IN  /\ all_results' = [all_results EXCEPT ![Frame(i)] = acc]
                          /\ start_cursor' = [start_cursor EXCEPT ![Frame(i)] = cur]
                          /\ IF MoreToFetch(cur)
                             THEN pc' = [pc EXCEPT ![i] = "loop"] /\ UNCHANGED ret
                             ELSE /\ pc' = [pc EXCEPT ![i] = "done"]
                                  /\ ret' = [ret EXCEPT ![i] = AggSuccess(acc)]
    /\ UNCHANGED <<op, args>>
    /\ AggVarsUnchanged

par_collect_all_pages_query_start ==
    \E i \in Invocations : ParStart(i, "_collect_all_pages_query")
par_collect_all_pages_query_iter ==
    \E i \in Invocations :
        ParIter(i, "_collect_all_pages_query", "database_id", "databases.query")

par_collect_all_blocks_start ==
    \E i \in Invocations : ParStart(i, "_collect_all_blocks")
par_collect_all_blocks_iter ==
    \E i \in Invocations :
        ParIter(i, "_collect_all_blocks", "block_id", "blocks.children.list")

\* the caller of invocation i has the outcome; the frame is discarded
ParReturned ==
    \E i \in Invocations :
        /\ pc[i] = "done"
        /\ pc' = [pc EXCEPT ![i] = "idle"]
        /\ op' = [op EXCEPT ![i] = "none"]
        /\ args' = [args EXCEPT ![i] = NoKw]
        /\ calls' = [calls EXCEPT ![i] = <<>>]
        /\ ret' = [ret EXCEPT ![i] = NoRet]
        /\ all_results' = [all_results EXCEPT ![Frame(i)] = <<>>]
        /\ start_cursor' = [start_cursor EXCEPT ![Frame(i)] = None]
        /\ AggVarsUnchanged

InitPar ==
    /\ pc = [i \in Invocations |-> "idle"]
    /\ op = [i \in Invocations |-> "none"]
    /\ args = [i \in Invocations |-> NoKw]
    /\ calls = [i \in Invocations |-> <<>>]
    /\ ret = [i \in Invocations |-> NoRet]
    /\ all_results = [i \in Invocations |-> <<>>]
    /\ start_cursor = [i \in Invocations |-> None]
    /\ world = NoWorld
    /\ candidate = None
    /\ verdict = FALSE

NextPar ==
    \/ par_collect_all_pages_query_start
    \/ par_collect_all_pages_query_iter
    \/ par_collect_all_blocks_start
    \/ par_collect_all_blocks_iter
    \/ ParReturned

SpecPar == InitPar /\ [][NextPar]_vars

-----------------------------------------------------------------------------
(* The tool operations.  Each action is one whole invocation: it draws the *)
(* arguments, runs the handler against the collaborator's answers and      *)
(* leaves the envelope in ret (pc "done"), or leaves pc "raised" when the  *)
(* handler ends with an exception outside safe_execute.  The collaborator  *)
(* answers with parsed objects: a listing is always a mapping.             *)

BadId == PyStr(<<"x", "y", "z">>)
NewlineId == PyStr(Rep("a", MinIdLen) \o <<"\n">>)
EmptyId == PyStr(<<>>)

IdArgs == {GoodId, BadId, NewlineId, EmptyId}
OptIdArgs == IdArgs \cup {None}
OptText == {None, PyStr("x")}
OptCursor == {None, PyStr("c1")}

Obj == [t |-> "obj", id |-> "o1"]
ObjResponses == Faults \cup {Ok(Obj)}

ToolVarsUnchanged == UNCHANGED <<all_results, start_cursor, candidate, verdict>>

Done(name, a, cs, env, w) ==
    /\ op' = name
    /\ args' = a
    /\ calls' = cs
    /\ ret' = env
    /\ world' = w
    /\ pc' = "done"
    /\ ToolVarsUnchanged

Raise(name, a, cs, w) ==
    /\ op' = name
    /\ args' = a
    /\ calls' = cs
    /\ ret' = NoRet
    /\ world' = w
    /\ pc' = "raised"
    /\ ToolVarsUnchanged

\* "return safe_execute(...)": one call, its envelope handed back as it is
CallAndReturn(name, a, endpoint, kwargs) ==
    \E resp \in ObjResponses :
        LET c == CallRec(endpoint, kwargs, resp)
        IN  Done(name, a, <<c>>, c.env, NoWorld)

\* {"title": [{"text": {"content": title}}]}
TitleProp(title) == [title |-> <<[text |-> [content |-> title]]>>]
\* [{"type": "text", "text": {"content": content}}]
TextRuns(content) == <<[type |-> "text", text |-> [content |-> content]]>>
External(url) == [external |-> [url |-> url]]
Emoji(icon) == [emoji |-> icon]

(* ---------------- user tools ---------------- *)

NOTION_GET_ABOUT_ME ==
    /\ pc = "idle"
    /\ CallAndReturn("NOTION_GET_ABOUT_ME", NoKw, "users.me", NoKw)

UserPool ==
    {[id |-> PyStr("u1"), name |-> PyStr("Ann")], [id |-> PyStr("u2"), name |-> Absent]}
UserLists == SeqsUpTo(UserPool, 2)
UserListings ==
    {Listing(r, c) : r \in {Absent} \cup {PyList(l) : l \in UserLists},
                     c \in {None, PyStr("c2")}}

\* {"id": u.get("id"), "name": u.get("name", "Unknown")}
SimplifyUser(u) == [id |-> Get(u.id), name |-> GetOr(u.name, PyStr("Unknown"))]

NOTION_LIST_USERS ==
    /\ pc = "idle"
    /\ \E cursor \in OptCursor,
          resp \in Faults \cup {Ok(l) : l \in UserListings} :
          LET a == [page_size |-> 30, start_cursor |-> cursor]
              kwargs == [page_size |-> 30] @@ If(Truthy(cursor), [start_cursor |-> cursor])
              c == CallRec("users.list", kwargs, resp)
              res == c.env
          IN  IF ~res.successful
              THEN Done("NOTION_LIST_USERS", a, <<c>>, res, NoWorld)
              ELSE LET us == GetOr(res.data.results, PyList(<<>>)).items
                       simplified == [i \in 1..Len(us) |-> SimplifyUser(us[i])]
                   IN  Done("NOTION_LIST_USERS", a, <<c>>,
                            [res EXCEPT !.data = PyList(simplified)], NoWorld)

NOTION_GET_ABOUT_USER ==
    /\ pc = "idle"
    /\ \E user_id \in IdArgs :
          LET a == [user_id |-> user_id]
          IN  IF ~validate_notion_id(user_id)
              THEN Done("NOTION_GET_ABOUT_USER", a, <<>>,
                        Failure("Invalid user ID format"), NoWorld)
              ELSE CallAndReturn("NOTION_GET_ABOUT_USER", a, "users.retrieve",
                                 [user_id |-> user_id])

(* ---------------- page tools ---------------- *)

NOTION_CREATE_NOTION_PAGE ==
    /\ pc = "idle"
    /\ \E parent_id \in IdArgs, cover \in OptText, icon \in OptText :
          LET title == PyStr("T")
              a == [parent_id |-> parent_id, title |-> title, cover |-> cover, icon |-> icon]
              kwargs == [parent |-> [page_id |-> parent_id],
                         properties |-> [title |-> TitleProp(title)]]
                        @@ If(Truthy(cover), [cover |-> External(cover)])
                        @@ If(Truthy(icon), [icon |-> Emoji(icon)])
          IN  IF ~validate_notion_id(parent_id)
              THEN Done("NOTION_CREATE_NOTION_PAGE", a, <<>>,
                        Failure("Invalid parent ID format"), NoWorld)
              ELSE CallAndReturn("NOTION_CREATE_NOTION_PAGE", a, "pages.create", kwargs)

\* the properties of a page object: (key, value) pairs in insertion order;
\* a value is a mapping that may hold "title", or no mapping at all
TitleValue(runs) == [t |-> "dict", title |-> PyList(runs)]
PlainDict == [t |-> "dict", title |-> Absent]
NotADict == [t |-> "str", s |-> "x"]
Props(pairs) == [t |-> "props", pairs |-> pairs]
PageObj(id, properties) ==
    [t |-> "page", id |-> PyStr(id), url |-> PyStr("https://n/" \o id),
     properties |-> properties]

Run(text) == [plain_text |-> PyStr(text)]
BareRun == [plain_text |-> Absent]

PagePool ==
    {PageObj("p1", Props(<<[key |-> "Tags", val |-> NotADict],
                           [key |-> "Heading", val |-> TitleValue(<<Run("Hel"), BareRun, Run("lo")>>)]>>)),
     PageObj("p2", Absent),
     PageObj("p3", Props(<<[key |-> "Status", val |-> PlainDict],
                           [key |-> "Name", val |-> TitleValue(<<>>)]>>)),
     PageObj("p4", Props(<<[key |-> "Status", val |-> PlainDict]>>))}

\* isinstance(v, dict) and "title" in v
HasTitle(v) == v.t = "dict" /\ v.title.t # "absent"

\* next((k for k, v in page_props.items() if ...), "Name")
FirstTitleKey_always_name(pairs) == "Name"

RECURSIVE FirstTitleKey(_)
FirstTitleKey(pairs) ==
    IF pairs = <<>> THEN "Name"
    ELSE IF HasTitle(Head(pairs).val) THEN Head(pairs).key
    ELSE FirstTitleKey(Tail(pairs))

PagePairs(page) == GetOr(page.properties, Props(<<>>)).pairs

\* the properties argument: none, a property of another name, or one under
\* the conventional title key
GivenValue == [rich_text |-> <<[text |-> [content |-> PyStr("given")]]>>]
PropertyArgs == {None, PyDict([Status |-> GivenValue]), PyDict([Name |-> GivenValue])}

NOTION_UPDATE_PAGE ==
    /\ pc = "idle"
    /\ \E page_id \in IdArgs, title \in {None, PyStr(""), PyStr("New")},
          archived \in {None, PyBool(FALSE), PyBool(TRUE)},
          cover_url \in OptText, icon_emoji \in OptText,
          properties \in PropertyArgs,
          meta \in Faults \cup {Ok(pg) : pg \in PagePool},
          resp \in ObjResponses :
          LET a == [page_id |-> page_id, title |-> title, archived |-> archived,
                    cover_url |-> cover_url, icon_emoji |-> icon_emoji,
                    properties |-> properties]
              base == If(archived.t # "none", [archived |-> archived])
                      @@ If(Truthy(cover_url), [cover |-> External(cover_url)])
                      @@ If(Truthy(icon_emoji), [icon |-> Emoji(icon_emoji)])
              c1 == CallRec("pages.retrieve", [page_id |-> page_id], meta)
              page_meta == c1.env
              title_key == IF page_meta.successful
                           THEN FirstTitleKey(PagePairs(page_meta.data))
                           ELSE "Name"
              titled == IF Truthy(title) THEN (title_key :> TitleProp(title)) ELSE NoKw
              props == IF Truthy(properties) THEN properties.map @@ titled ELSE titled
              kwargs == [page_id |-> page_id] @@ base
                        @@ If(Truthy(title) \/ Truthy(properties), [properties |-> props])
              first == IF Truthy(title) THEN <<c1>> ELSE <<>>
              c2 == CallRec("pages.update", kwargs, resp)
          IN  IF ~validate_notion_id(page_id)
              THEN Done("NOTION_UPDATE_PAGE", a, <<>>,
                        Failure("Invalid page_id format"), NoWorld)
              ELSE Done("NOTION_UPDATE_PAGE", a, Append(first, c2), c2.env, NoWorld)

NOTION_GET_PAGE_PROPERTY_ACTION ==
    /\ pc = "idle"
    /\ \E page_id \in IdArgs, page_size \in {None, PyInt(0), PyInt(5)},
          cursor \in OptCursor :
          LET property_id == PyStr("title")
              a == [page_id |-> page_id, property_id |-> property_id,
                    page_size |-> page_size, start_cursor |-> cursor]
              kwargs == [page_id |-> page_id, property_id |-> property_id]
                        @@ If(Truthy(page_size), [page_size |-> page_size])
                        @@ If(Truthy(cursor), [start_cursor |-> cursor])
          IN  IF ~validate_notion_id(page_id)
              THEN Done("NOTION_GET_PAGE_PROPERTY_ACTION", a, <<>>,
                        Failure("Invalid page_id format"), NoWorld)
              ELSE CallAndReturn("NOTION_GET_PAGE_PROPERTY_ACTION", a,
                                 "pages.properties.retrieve", kwargs)

NOTION_ARCHIVE_NOTION_PAGE ==
    /\ pc = "idle"
    /\ \E page_id \in IdArgs, archive \in BOOLEAN :
          LET a == [page_id |-> page_id, archive |-> archive]
          IN  IF ~validate_notion_id(page_id)
              THEN Done("NOTION_ARCHIVE_NOTION_PAGE", a, <<>>,
                        Failure("Invalid page_id format"), NoWorld)
              ELSE CallAndReturn("NOTION_ARCHIVE_NOTION_PAGE", a, "pages.update",
                                 [page_id |-> page_id, archived |-> archive])

\* "".join(t.get("plain_text", "") for t in runs)
RECURSIVE JoinPlainText(_)
JoinPlainText(runs) ==
    IF runs = <<>> THEN ""
    ELSE GetOr(Head(runs).plain_text, PyStr("")).s \o JoinPlainText(Tail(runs))

\* next((v for v in props.values() if ...), None)
RECURSIVE FirstTitleProp(_)
FirstTitleProp(pairs) ==
    IF pairs = <<>> THEN None
    ELSE IF HasTitle(Head(pairs).val) THEN Head(pairs).val
    ELSE FirstTitleProp(Tail(pairs))

\* the title list_pages shows for a page: the joined text of its title
\* property, "Untitled" when there is none or the text is empty
PageTitle(pg) ==
    LET title_prop == FirstTitleProp(PagePairs(pg))
        joined == IF title_prop.t = "none" THEN ""
                  ELSE JoinPlainText(title_prop.title.items)
    IN  IF joined = "" THEN "Untitled" ELSE joined

\* {"id": pg.get("id"), "title": title, "url": pg.get("url")}
SimplifyPage(pg) == [id |-> Get(pg.id), title |-> PyStr(PageTitle(pg)), url |-> Get(pg.url)]

\* the error field of the envelope list_pages builds on success
list_pages_error == PyStr("")

PageLists == SeqsUpTo(PagePool, 1) \cup
    {<<PageObj("p1", Absent), PageObj("p3", Absent)>>}
PageListings ==
    {Listing(r, None) : r \in {Absent} \cup {PyList(l) : l \in PageLists}}
    \cup {Listing(PyList(<<pg>>), PyStr("c2")) : pg \in PagePool}

list_pages ==
    /\ pc = "idle"
    /\ \E keyword \in OptText,
          resp \in Faults \cup {Ok(l) : l \in PageListings} :
          LET a == [keyword |-> keyword]
              search_kwargs == [filter |-> [property |-> "object", value |-> "page"]]
                               @@ If(Truthy(keyword), [query |-> keyword])
              c == CallRec("search", search_kwargs, resp)
              res == c.env
          IN  IF ~res.successful
              THEN Done("list_pages", a, <<c>>, res, NoWorld)
              ELSE LET pgs == GetOr(res.data.results, PyList(<<>>)).items
                       pages == [i \in 1..Len(pgs) |-> SimplifyPage(pgs[i])]
                   IN  Done("list_pages", a, <<c>>,
                            Envelope(TRUE, PyList(pages), list_pages_error), NoWorld)

(* ---------------- database tools ---------------- *)

\* a database schema: (name, definition) pairs
SchemaArgs ==
    {None,
     Props(<<>>),
     Props(<<[key |-> "Notes", val |-> PlainDict]>>),
     Props(<<[key |-> "Tags", val |-> NotADict]>>),
     Props(<<[key |-> "Name", val |-> TitleValue(<<>>)]>>),
     Props(<<[key |-> "Notes", val |-> PlainDict],
             [key |-> "Name", val |-> TitleValue(<<>>)]>>)}

\* a variant that takes any mapping-valued property for a title property
HasTitleProperty_any_mapping(properties) ==
    \E i \in 1..Len(properties.pairs) : properties.pairs[i].val.t = "dict"

\* any(isinstance(v, dict) and "title" in v for v in properties.values())
HasTitleProperty(properties) ==
    \E i \in 1..Len(properties.pairs) : HasTitle(properties.pairs[i].val)

NOTION_CREATE_DATABASE ==
    /\ pc = "idle"
    /\ \E parent_id \in IdArgs, properties \in SchemaArgs :
          LET title == PyStr("T")
              a == [parent_id |-> parent_id, title |-> title, properties |-> properties]
              payload == [parent |-> [type |-> "page_id", page_id |-> parent_id],
                          title |-> TextRuns(title),
                          properties |-> properties]
          IN  IF ~validate_notion_id(parent_id)
              THEN Done("NOTION_CREATE_DATABASE", a, <<>>,
                        Failure("Invalid parent_id format"), NoWorld)
              ELSE IF properties.t # "props"
              THEN \* .values() on a value that is no mapping raises
                   Raise("NOTION_CREATE_DATABASE", a, <<>>, NoWorld)
              ELSE IF ~HasTitleProperty(properties)
              THEN Done("NOTION_CREATE_DATABASE", a, <<>>,
                        Failure("Database must have at least one title property"), NoWorld)
              ELSE CallAndReturn("NOTION_CREATE_DATABASE", a, "databases.create", payload)

RowProps == PyDict([Name |-> "given"])

NOTION_INSERT_ROW_DATABASE ==
    /\ pc = "idle"
    /\ \E database_id \in IdArgs, icon \in OptText, cover \in OptText,
          children \in {None, PyList(<<>>), PyList(<<"b1">>)} :
          LET a == [database_id |-> database_id, properties |-> RowProps,
                    icon |-> icon, cover |-> cover, children |-> children]
              payload == [parent |-> [database_id |-> database_id], properties |-> RowProps]
                         @@ If(Truthy(icon), [icon |-> Emoji(icon)])
                         @@ If(Truthy(cover), [cover |-> External(cover)])
                         @@ If(Truthy(children), [children |-> children])
          IN  IF ~validate_notion_id(database_id)
              THEN Done("NOTION_INSERT_ROW_DATABASE", a, <<>>,
                        Failure("Invalid database_id format"), NoWorld)
              ELSE CallAndReturn("NOTION_INSERT_ROW_DATABASE", a, "pages.create", payload)

SortEntry(property, direction) == [property |-> property, direction |-> direction]
SortArgs ==
    {None,
     PyList(<<>>),
     PyList(<<SortEntry(PyStr("Name"), Absent)>>),
     PyList(<<SortEntry(PyStr("Name"), PyStr("descending"))>>),
     PyList(<<SortEntry(PyStr("Name"), Absent), SortEntry(Absent, PyStr("descending"))>>)}

\* {"property": s["property"], "direction": s.get("direction", "ascending")}
SortPayload(s) ==
    [property |-> s.property, direction |-> GetOr(s.direction, PyStr("ascending"))]

NOTION_QUERY_DATABASE ==
    /\ pc = "idle"
    /\ \E database_id \in IdArgs, sorts \in SortArgs, cursor \in OptCursor :
          LET a == [database_id |-> database_id, page_size |-> 10, sorts |-> sorts,
                    start_cursor |-> cursor]
              entries == IF Truthy(sorts) THEN sorts.items ELSE <<>>
              payload == [database_id |-> database_id, page_size |-> 10]
                         @@ If(Truthy(sorts),
                               [sorts |-> [i \in 1..Len(entries) |-> SortPayload(entries[i])]])
                         @@ If(Truthy(cursor), [start_cursor |-> cursor])
          IN  IF ~validate_notion_id(database_id)
              THEN Done("NOTION_QUERY_DATABASE", a, <<>>,
                        Failure("Invalid database_id format"), NoWorld)
              ELSE IF \E i \in 1..Len(entries) : entries[i].property.t = "absent"
              THEN \* s["property"] on an entry without that key raises
                   Raise("NOTION_QUERY_DATABASE", a, <<>>, NoWorld)
              ELSE CallAndReturn("NOTION_QUERY_DATABASE", a, "databases.query", payload)

NOTION_FETCH_DATABASE ==
    /\ pc = "idle"
    /\ \E database_id \in IdArgs :
          LET a == [database_id |-> database_id]
          IN  IF ~validate_notion_id(database_id)
              THEN Done("NOTION_FETCH_DATABASE", a, <<>>,
                        Failure("Invalid database_id format"), NoWorld)
              ELSE CallAndReturn("NOTION_FETCH_DATABASE", a, "databases.retrieve",
                                 [database_id |-> database_id])

NOTION_FETCH_ROW ==
    /\ pc = "idle"
    /\ \E page_id \in IdArgs :
          LET a == [page_id |-> page_id]
          IN  IF ~validate_notion_id(page_id)
              THEN Done("NOTION_FETCH_ROW", a, <<>>,
                        Failure("Invalid page_id format"), NoWorld)
              ELSE CallAndReturn("NOTION_FETCH_ROW", a, "pages.retrieve",
                                 [page_id |-> page_id])

NOTION_UPDATE_ROW_DATABASE ==
    /\ pc = "idle"
    /\ \E page_id \in IdArgs, properties \in {None, RowProps}, icon \in OptText,
          cover \in OptText, archived \in {None, PyBool(FALSE), PyBool(TRUE)} :
          LET a == [page_id |-> page_id, properties |-> properties, icon |-> icon,
                    cover |-> cover, archived |-> archived]
              payload == [page_id |-> page_id]
                         @@ If(Truthy(properties), [properties |-> properties])
                         @@ If(Truthy(icon), [icon |-> Emoji(icon)])
                         @@ If(Truthy(cover), [cover |-> External(cover)])
                         @@ If(archived.t # "none", [archived |-> archived])
          IN  IF ~validate_notion_id(page_id)
              THEN Done("NOTION_UPDATE_ROW_DATABASE", a, <<>>,
                        Failure("Invalid page_id format"), NoWorld)
              ELSE CallAndReturn("NOTION_UPDATE_ROW_DATABASE", a, "pages.update", payload)

NOTION_UPDATE_SCHEMA_DATABASE ==
    /\ pc = "idle"
    /\ \E database_id \in IdArgs, title \in OptText, description \in OptText,
          properties \in {None, RowProps} :
          LET a == [database_id |-> database_id, title |-> title,
                    description |-> description, properties |-> properties]
              payload == [database_id |-> database_id]
                         @@ If(Truthy(title), [title |-> TextRuns(title)])
                         @@ If(Truthy(description), [description |-> TextRuns(description)])
                         @@ If(Truthy(properties), [properties |-> properties])
          IN  IF ~validate_notion_id(database_id)
              THEN Done("NOTION_UPDATE_SCHEMA_DATABASE", a, <<>>,
                        Failure("Invalid database_id format"), NoWorld)
              ELSE CallAndReturn("NOTION_UPDATE_SCHEMA_DATABASE", a, "databases.update",
                                 payload)

(* ---------------- block tools ---------------- *)

MaxBlocks == 100

markdown_to_rich_text_untyped(content) == <<[text |-> [content |-> content]]>>

markdown_to_rich_text(content) == TextRuns(content)

\* items of a content list: a block object, an item of plain content, or
\* something that is neither
BlockItem == [t |-> "dict", object |-> PyStr("block"), content |-> Absent]
ContentItem == [t |-> "dict", object |-> Absent, content |-> PyStr("hi")]
JunkItem == [t |-> "dict", object |-> Absent, content |-> Absent]

BlockListArgs ==
    {None, PyList(<<ContentItem>>), PyList(<<BlockItem, JunkItem>>),
     PyList(<<ContentItem, BlockItem>>)}
    \cup {PyList(Rep(BlockItem, n)) : n \in {0, 1, MaxBlocks, MaxBlocks + 1}}

AfterArgs == {None, GoodId}

TooManyBlocks_one_more(items) == Len(items) > MaxBlocks + 1

\* "len(...) > 100"
TooManyBlocks(items) == Len(items) > MaxBlocks

\* what one item of content_blocks becomes in the request
ParsedBlock(block) ==
    IF block.object = PyStr("block")
    THEN block
    ELSE [object |-> "block", type |-> "paragraph",
          paragraph |-> [rich_text |-> markdown_to_rich_text(block.content)]]

Parsable(block) ==
    block.t = "dict" /\ (block.object = PyStr("block") \/ block.content.t # "absent")

NOTION_ADD_MULTIPLE_PAGE_CONTENT ==
    /\ pc = "idle"
    /\ \E parent_block_id \in IdArgs, content_blocks \in BlockListArgs, after \in AfterArgs :
          LET a == [parent_block_id |-> parent_block_id,
                    content_blocks |-> content_blocks, after |-> after]
              items == content_blocks.items
              parsed_blocks == [i \in 1..Len(items) |-> ParsedBlock(items[i])]
              payload == [block_id |-> parent_block_id, children |-> parsed_blocks]
                         @@ If(after.t # "none", [after |-> after])
              name == "NOTION_ADD_MULTIPLE_PAGE_CONTENT"
          IN  IF ~validate_notion_id(parent_block_id)
              THEN Done(name, a, <<>>, Failure("Invalid parent_block_id"), NoWorld)
              ELSE IF content_blocks.t # "list" \/ Len(content_blocks.items) = 0
              THEN Done(name, a, <<>>,
                        Failure("content_blocks must be a non-empty list"), NoWorld)
              ELSE IF TooManyBlocks(items)
              THEN Done(name, a, <<>>, Failure("Maximum 100 blocks per request"), NoWorld)
              ELSE IF \E i \in 1..Len(items) : ~Parsable(items[i])
              THEN Done(name, a, <<>>, Failure("Invalid block format: {block}"), NoWorld)
              ELSE CallAndReturn(name, a, "blocks.children.append", payload)

NOTION_ADD_PAGE_CONTENT ==
    /\ pc = "idle"
    /\ \E parent_block_id \in IdArgs, content_block \in {None, BlockItem},
          after \in AfterArgs :
          LET a == [parent_block_id |-> parent_block_id,
                    content_block |-> content_block, after |-> after]
              payload == [block_id |-> parent_block_id, children |-> <<content_block>>]
                         @@ If(after.t # "none", [after |-> after])
          IN  IF ~validate_notion_id(parent_block_id)
              THEN Done("NOTION_ADD_PAGE_CONTENT", a, <<>>,
                        Failure("Invalid parent_block_id"), NoWorld)
              ELSE IF content_block.t # "dict"
              THEN Done("NOTION_ADD_PAGE_CONTENT", a, <<>>,
                        Failure("content_block must be an object"), NoWorld)
              ELSE CallAndReturn("NOTION_ADD_PAGE_CONTENT", a, "blocks.children.append",
                                 payload)

NOTION_APPEND_BLOCK_CHILDREN ==
    /\ pc = "idle"
    /\ \E block_id \in IdArgs, children \in BlockListArgs, after \in AfterArgs :
          LET a == [block_id |-> block_id, children |-> children, after |-> after]
              payload == [block_id |-> block_id, children |-> children.items]
                         @@ If(after.t # "none", [after |-> after])
              name == "NOTION_APPEND_BLOCK_CHILDREN"
          IN  IF ~validate_notion_id(block_id)
              THEN Done(name, a, <<>>, Failure("Invalid block_id"), NoWorld)
              ELSE IF children.t # "list" \/ Len(children.items) = 0
              THEN Done(name, a, <<>>, Failure("children must be a non-empty list"), NoWorld)
              ELSE IF TooManyBlocks(children.items)
              THEN Done(name, a, <<>>, Failure("Maximum 100 blocks per request"), NoWorld)
              ELSE CallAndReturn(name, a, "blocks.children.append", payload)

RichTextTypes ==
    {"paragraph", "heading_1", "heading_2", "heading_3", "bulleted_list_item",
     "numbered_list_item", "quote"}

ContentArgs == {PyStr("hello"), PyStr("")}

NOTION_UPDATE_BLOCK ==
    /\ pc = "idle"
    /\ \E block_id \in IdArgs, block_type \in RichTextTypes \cup {"to_do", "image"},
          content \in ContentArgs,
          additional_properties \in {None, PyDict(NoKw), PyDict([checked |-> TRUE])} :
          LET a == [block_id |-> block_id, block_type |-> block_type, content |-> content,
                    additional_properties |-> additional_properties]
              text == [rich_text |-> markdown_to_rich_text(content)]
              merged == IF Truthy(additional_properties)
                        THEN additional_properties.map @@ text
                        ELSE text
              block_payload ==
                  IF block_type \in RichTextTypes THEN (block_type :> merged)
                  ELSE IF block_type = "to_do" THEN [to_do |-> merged]
                  ELSE (block_type :> additional_properties.map)
          IN  IF ~validate_notion_id(block_id)
              THEN Done("NOTION_UPDATE_BLOCK", a, <<>>, Failure("Invalid block_id"), NoWorld)
              ELSE IF block_type \notin RichTextTypes \cup {"to_do"}
                      /\ ~Truthy(additional_properties)
              THEN Done("NOTION_UPDATE_BLOCK", a, <<>>,
                        Failure("Unsupported block_type '" \o block_type
                                \o "' without additional_properties"), NoWorld)
              ELSE CallAndReturn("NOTION_UPDATE_BLOCK", a, "blocks.update",
                                 [block_id |-> block_id] @@ block_payload)

NOTION_DELETE_BLOCK ==
    /\ pc = "idle"
    /\ \E block_id \in IdArgs :
          LET a == [block_id |-> block_id]
          IN  IF ~validate_notion_id(block_id)
              THEN Done("NOTION_DELETE_BLOCK", a, <<>>, Failure("Invalid block_id"), NoWorld)
              ELSE CallAndReturn("NOTION_DELETE_BLOCK", a, "blocks.update",
                                 [block_id |-> block_id, archived |-> TRUE])

NOTION_FETCH_BLOCK_CONTENTS ==
    /\ pc = "idle"
    /\ \E block_id \in IdArgs, page_size \in {None, PyInt(0), PyInt(5)},
          cursor \in OptCursor :
          LET a == [block_id |-> block_id, page_size |-> page_size, start_cursor |-> cursor]
              kwargs == [block_id |-> block_id]
                        @@ If(Truthy(page_size), [page_size |-> page_size])
                        @@ If(Truthy(cursor), [start_cursor |-> cursor])
          IN  IF ~validate_notion_id(block_id)
              THEN Done("NOTION_FETCH_BLOCK_CONTENTS", a, <<>>,
                        Failure("Invalid block_id"), NoWorld)
              ELSE CallAndReturn("NOTION_FETCH_BLOCK_CONTENTS", a, "blocks.children.list",
                                 kwargs)

NOTION_FETCH_BLOCK_METADATA ==
    /\ pc = "idle"
    /\ \E block_id \in IdArgs :
          LET a == [block_id |-> block_id]
          IN  IF ~validate_notion_id(block_id)
              THEN Done("NOTION_FETCH_BLOCK_METADATA", a, <<>>,
                        Failure("Invalid block_id"), NoWorld)
              ELSE CallAndReturn("NOTION_FETCH_BLOCK_METADATA", a, "blocks.retrieve",
                                 [block_id |-> block_id])

(* ---------------- comment tools ---------------- *)

\* the comment argument: {"content": ...}, {} or a value that is no mapping
CommentArgs ==
    {None, [t |-> "dict", content |-> PyStr("hi")], [t |-> "dict", content |-> Absent]}

NOTION_CREATE_COMMENT ==
    /\ pc = "idle"
    /\ \E comment \in CommentArgs, discussion_id \in OptIdArgs, parent_page_id \in OptIdArgs :
          LET a == [comment |-> comment, discussion_id |-> discussion_id,
                    parent_page_id |-> parent_page_id]
              rich_text == <<[type |-> "text",
                              text |-> [content |-> GetOr(comment.content, PyStr(""))]]>>
              payload == [rich_text |-> rich_text]
                         @@ IF Truthy(discussion_id)
                            THEN [discussion_id |-> discussion_id]
                            ELSE [parent |-> [type |-> "page_id", page_id |-> parent_page_id]]
          IN  IF ~Truthy(discussion_id) /\ ~Truthy(parent_page_id)
              THEN Done("NOTION_CREATE_COMMENT", a, <<>>,
                        Failure("Either discussion_id or parent_page_id must be provided."),
                        NoWorld)
              ELSE IF comment.t # "dict"
              THEN \* .get on a value that is no mapping raises
                   Raise("NOTION_CREATE_COMMENT", a, <<>>, NoWorld)
              ELSE CallAndReturn("NOTION_CREATE_COMMENT", a, "comments.create", payload)

CommentPageSize == 100

\* comments are told apart by their identifiers alone
CommentId(n) == [t |-> "id", n |-> n]
CommentObj(n) == [id |-> CommentId(n), rich_text |-> "text"]

\* what the collaborator holds under a container: its comments in order
CommentStores ==
    {[i \in 1..n |-> CommentObj(i)] : n \in {0, 1, 2, CommentPageSize, CommentPageSize + 1}}

Min(x, y) == IF x <= y THEN x ELSE y

\* the collaborator's first page of a store for a page size: at most that
\* many comments, and a cursor when more remain
FirstPage(store, page_size) ==
    Listing(PyList(SubSeq(store, 1, Min(Len(store), page_size))),
            IF Len(store) > page_size THEN PyStr("c2") ELSE None)

\* "for c in results: if c.get('id') == comment_id: return ..." finds
\* the first match
RECURSIVE FindComment(_, _)
FindComment(results, comment_id) ==
    IF results = <<>> THEN None
    ELSE IF Head(results).id = comment_id THEN PyDict(Head(results))
    ELSE FindComment(Tail(results), comment_id)

NOTION_GET_COMMENT_BY_ID ==
    /\ pc = "idle"
    /\ \E parent_block_id \in IdArgs,
          comment_id \in {None, CommentId(1), CommentId(2), CommentId(CommentPageSize + 1)},
          store \in CommentStores :
          \E resp \in Faults \cup {Ok(FirstPage(store, CommentPageSize))} :
          LET a == [parent_block_id |-> parent_block_id, comment_id |-> comment_id]
              kwargs == [block_id |-> parent_block_id, page_size |-> CommentPageSize]
              c == CallRec("comments.list", kwargs, resp)
              res == c.env
              w == [comments |-> store]
              name == "NOTION_GET_COMMENT_BY_ID"
          IN  IF ~Truthy(parent_block_id) \/ ~Truthy(comment_id)
              THEN Done(name, a, <<>>,
                        Failure("parent_block_id and comment_id are required."), w)
              ELSE IF ~res.successful
              THEN Done(name, a, <<c>>, res, w)
              ELSE LET found == FindComment(GetOr(res.data.results, PyList(<<>>)).items,
                                            comment_id)
                   IN  IF found.t # "none"
                       THEN Done(name, a, <<c>>, Envelope(TRUE, found.map, None), w)
                       ELSE Done(name, a, <<c>>,
                                 Failure("Comment with ID {comment_id} not found."), w)

NOTION_FETCH_COMMENTS ==
    /\ pc = "idle"
    /\ \E block_id \in IdArgs, cursor \in OptCursor :
          LET a == [block_id |-> block_id, page_size |-> CommentPageSize,
                    start_cursor |-> cursor]
              kwargs == [block_id |-> block_id, page_size |-> CommentPageSize]
                        @@ If(cursor.t # "none", [start_cursor |-> cursor])
          IN  IF ~Truthy(block_id)
              THEN Done("NOTION_FETCH_COMMENTS", a, <<>>,
                        Failure("block_id is required."), NoWorld)
              ELSE CallAndReturn("NOTION_FETCH_COMMENTS", a, "comments.list", kwargs)

(* ---------------- search tools ---------------- *)

NOTION_SEARCH_NOTION_PAGE ==
    /\ pc = "idle"
    /\ \E query \in {PyStr(""), PyStr("x")}, cursor \in OptCursor :
          LET a == [query |-> query, page_size |-> 10, start_cursor |-> cursor]
              kwargs == [page_size |-> 10, query |-> query]
                        @@ If(Truthy(cursor), [start_cursor |-> cursor])
          IN  CallAndReturn("NOTION_SEARCH_NOTION_PAGE", a, "search", kwargs)

ObjectFilter(value) == [filter |-> [property |-> "object", value |-> value]]

SearchKwargs_pages_first(get_all, get_databases, get_pages, kwargs) ==
    IF get_all THEN kwargs
    ELSE IF get_pages \/ ~get_databases THEN kwargs @@ ObjectFilter("page")
    ELSE kwargs @@ ObjectFilter("database")

\* the flags are tested in this order; get_pages is not read
SearchKwargs(get_all, get_databases, get_pages, kwargs) ==
    IF get_all THEN kwargs
    ELSE IF get_databases THEN kwargs @@ ObjectFilter("database")
    ELSE kwargs @@ ObjectFilter("page")

NOTION_FETCH_DATA ==
    /\ pc = "idle"
    /\ \E get_all \in BOOLEAN, get_databases \in BOOLEAN, get_pages \in BOOLEAN,
          query \in OptText :
          LET a == [get_all |-> get_all, get_databases |-> get_databases,
                    get_pages |-> get_pages, page_size |-> 100, query |-> query]
              kwargs == [page_size |-> 100] @@ If(Truthy(query), [query |-> query])
              filtered == SearchKwargs(get_all, get_databases, get_pages, kwargs)
          IN  CallAndReturn("NOTION_FETCH_DATA", a, "search", filtered)

(* ---------------- the tool surface ---------------- *)

\* the host has the outcome; the next invocation starts with nothing kept
Returned ==
    /\ pc \in {"done", "raised"}
    /\ pc' = "idle"
    /\ op' = "none"
    /\ args' = NoKw
    /\ calls' = <<>>
    /\ ret' = NoRet
    /\ world' = NoWorld
    /\ ToolVarsUnchanged

Init ==
    /\ pc = "idle"
    /\ op = "none"
    /\ args = NoKw
    /\ calls = <<>>
    /\ ret = NoRet
    /\ world = NoWorld
    /\ all_results = <<>>
    /\ start_cursor = None
    /\ candidate = None
    /\ verdict = FALSE

Next ==
    \/ NOTION_GET_ABOUT_ME
    \/ NOTION_LIST_USERS
    \/ NOTION_GET_ABOUT_USER
    \/ NOTION_CREATE_NOTION_PAGE
    \/ NOTION_UPDATE_PAGE
    \/ NOTION_GET_PAGE_PROPERTY_ACTION
    \/ NOTION_ARCHIVE_NOTION_PAGE
    \/ list_pages
    \/ NOTION_CREATE_DATABASE
    \/ NOTION_INSERT_ROW_DATABASE
    \/ NOTION_QUERY_DATABASE
    \/ NOTION_FETCH_DATABASE
    \/ NOTION_FETCH_ROW
    \/ NOTION_UPDATE_ROW_DATABASE
    \/ NOTION_UPDATE_SCHEMA_DATABASE
    \/ NOTION_ADD_MULTIPLE_PAGE_CONTENT
    \/ NOTION_ADD_PAGE_CONTENT
    \/ NOTION_APPEND_BLOCK_CHILDREN
    \/ NOTION_UPDATE_BLOCK
    \/ NOTION_DELETE_BLOCK
    \/ NOTION_FETCH_BLOCK_CONTENTS
    \/ NOTION_FETCH_BLOCK_METADATA
    \/ NOTION_CREATE_COMMENT
    \/ NOTION_GET_COMMENT_BY_ID
    \/ NOTION_FETCH_COMMENTS
    \/ NOTION_SEARCH_NOTION_PAGE
    \/ NOTION_FETCH_DATA
    \/ Returned

Spec == Init /\ [][Next]_vars

-----------------------------------------------------------------------------
(* Properties of the pagination aggregators (SpecAgg, SpecAggLive).        *)

PageOk(c) == c.resp.kind = "ok"
CursorOf(c) == c.resp.val.next_cursor
ItemsOf(c) ==
    IF c.resp.val.results.t = "absent" THEN <<>> ELSE c.resp.val.results.items

RECURSIVE ConcatItems(_)
ConcatItems(cs) ==
    IF cs = <<>> THEN <<>> ELSE ItemsOf(Head(cs)) \o ConcatItems(Tail(cs))

Aggregating == op \in {"_collect_all_pages_query", "_collect_all_blocks"}

NullCursors == {Absent, None}
FalsyCursors == {Absent, None, PyStr("")}

\* Pages P1..Pn all successful, only Pn with a cursor in Ends: n calls were
\* issued and the envelope holds L1 ++ ... ++ Ln.
WholeListing(Ends) ==
    (Aggregating /\ pc = "done" /\ \A i \in 1..Len(calls) : PageOk(calls[i]))
    => /\ CursorOf(calls[Len(calls)]) \in Ends
       /\ \A i \in 1..(Len(calls) - 1) : CursorOf(calls[i]) \notin Ends
       /\ ret = Envelope(TRUE,
                         [t |-> "collected", results |-> PyList(ConcatItems(calls))],
                         None)

C6_AbortReturnsFailureVerbatim ==
    Aggregating =>
        \A k \in 1..Len(calls) :
            calls[k].resp.kind = "fault"
            => /\ k = Len(calls)
               /\ pc = "done"
               /\ ret = calls[k].env
               /\ ret = Envelope(FALSE, EmptyMap, PyStr(calls[k].resp.msg))

C6_Witness ==
    /\ Aggregating
    /\ pc = "done"
    /\ Len(calls) = 2
    /\ PageOk(calls[1])
    /\ ItemsOf(calls[1]) # <<>>
    /\ calls[2].resp.kind = "fault"
    /\ ~ret.successful

\* The loop goes on exactly after a successful page whose cursor is not in
\* Ends, and has returned exactly after a failed page or one whose cursor
\* is in Ends.
StopsOnlyAt(Ends) ==
    (Aggregating /\ calls # <<>>)
    => LET last == calls[Len(calls)]
       IN  /\ \A i \in 1..(Len(calls) - 1) :
                 PageOk(calls[i]) /\ CursorOf(calls[i]) \notin Ends
           /\ (PageOk(last) /\ CursorOf(last) \notin Ends) => pc = "loop"
           /\ pc = "done" =>
                 \/ last.resp.kind = "fault" /\ ~ret.successful
                 \/ PageOk(last) /\ CursorOf(last) \in Ends /\ ret.successful
           /\ pc = "loop" => PageOk(last)

\* C7 as stated: success only when the last cursor is absent or null; after
\* a successful page with any other cursor value another call follows.
C7_StopsOnlyAtNullCursor == StopsOnlyAt(NullCursors)

\* C7 as amended: the loop ends with success when the last cursor is absent,
\* null or the empty string, goes on after a successful page with a non-empty
\* cursor, returns exactly when a page fails or such a cursor arrives, and an
\* aggregation under way comes to an end once the collaborator stops handing
\* out non-empty cursors.
C7_StopsOnlyAtFalsyCursor ==
    /\ [](StopsOnlyAt(FalsyCursors))
    /\ (pc = "loop") ~> (pc = "done")

C7_Witness ==
    /\ Aggregating
    /\ pc = "done"
    /\ Len(calls) = 2
    /\ PageOk(calls[2])
    /\ CursorOf(calls[1]) = PyStr("c1")
    /\ CursorOf(calls[2]) = PyStr("")
    /\ ret.successful

-----------------------------------------------------------------------------
(* Properties of the identifier validator (SpecVal).                       *)

\* a string of MinIdLen to MaxIdLen characters, each a hexadecimal digit or
\* a dash, and nothing else
WellFormedId(v) ==
    /\ v.t = "str"
    /\ Len(v.s) \in MinIdLen..MaxIdLen
    /\ \A i \in 1..Len(v.s) : v.s[i] \in HexDigits \cup {"-"}

\* C9: validate_notion_id returns true exactly for strings whose entire
\* content is 32 to 36 hexadecimal digits or dashes, and false for anything
\* else, a string with a trailing line terminator included.
C9_AcceptsExactlyWellFormedIds ==
    pc = "validated" => (verdict <=> WellFormedId(candidate))

-----------------------------------------------------------------------------
(* Properties of the tool operations (Spec).                               *)

Finished == pc \in {"done", "raised"}

\* the arguments that name a page, database, block, user, discussion or
\* comment container
IdentifierArgs ==
    {"user_id", "parent_id", "page_id", "database_id", "block_id", "parent_block_id",
     "discussion_id", "parent_page_id"}

\* the identifier arguments the caller gave a value for
GivenIds == {f \in DOMAIN args \cap IdentifierArgs : Truthy(args[f])}

\* C1: when an identifier argument fails validate_notion_id, the envelope
\* the operation returns has successful false and no collaborator call has
\* been issued.  (An invocation that ends by raising is the subject of C2.)
C1_InvalidIdNeverReachesCollaborator ==
    (pc = "done" /\ \E f \in GivenIds : ~validate_notion_id(args[f]))
    => /\ ~ret.successful
       /\ calls = <<>>

\* C2: no operation ends by raising an exception to its caller, whatever its
\* arguments and whatever the collaborator answers.
C2_NoOperationRaises == pc # "raised"

\* the reduced view of a user: its id, and its name or "Unknown" without one
UserView(u) ==
    [id |-> u.id, name |-> IF u.name.t = "absent" THEN PyStr("Unknown") ELSE u.name]

\* the reduced view of a page: its id, its title text and its url
PageView(pg) == [id |-> pg.id, title |-> PyStr(PageTitle(pg)), url |-> pg.url]

IsProjectionOf(data, raw) ==
    /\ raw.t = "listing"
    /\ LET items == IF raw.results.t = "absent" THEN <<>> ELSE raw.results.items
       IN  CASE op = "NOTION_LIST_USERS" ->
                  data = PyList([i \in 1..Len(items) |-> UserView(items[i])])
             [] op = "list_pages" ->
                  data = PyList([i \in 1..Len(items) |-> PageView(items[i])])
             [] op = "NOTION_GET_COMMENT_BY_ID" ->
                  \E i \in 1..Len(items) : data = items[i]
             [] OTHER -> FALSE

\* C3: an envelope returned with successful true has error null, and its
\* data is the collaborator's return value or the projection of it that the
\* operation documents.
C3_SuccessHasNullErrorAndData ==
    (pc = "done" /\ ret.successful)
    => /\ ret.error = None
       /\ LET raw == calls[Len(calls)].resp.val
          IN  ret.data = raw \/ IsProjectionOf(ret.data, raw)

\* C4: whenever the wrapped call raises a fault, of any type and with any
\* message, the empty one included, safe_execute returns successful false,
\* the empty mapping as data and a non-empty string as error.
C4_FaultGivesNonEmptyError ==
    \A i \in 1..Len(calls) :
        calls[i].resp.kind = "fault"
        => /\ ~calls[i].env.successful
           /\ calls[i].env.data = EmptyMap
           /\ calls[i].env.error.t = "str"
           /\ Len(calls[i].env.error.s) > 0

\* C8: when the comment listing succeeds and some comment under the
\* container, on whatever page of the listing, has the identifier asked for,
\* NOTION_GET_COMMENT_BY_ID returns that comment with successful true and
\* error null; it reports "not found" only when no comment under the
\* container has the identifier.
C8_FindsCommentAnywhereUnderContainer ==
    (/\ pc = "done"
     /\ op = "NOTION_GET_COMMENT_BY_ID"
     /\ calls # <<>>
     /\ calls[1].resp.kind = "ok")
    => LET store == world.comments
           matches == {i \in 1..Len(store) : store[i].id = args.comment_id}
       IN  /\ matches # {} => \E i \in matches : ret = Envelope(TRUE, store[i], None)
           /\ matches = {} => ~ret.successful

\* a property value that is a mapping holding the key "title"
TitleTyped(v) == v.t = "dict" /\ v.title # Absent

CreatingDatabase == Finished /\ op = "NOTION_CREATE_DATABASE"

\* a schema none of whose property values is title-typed
SchemaWithoutTitle ==
    /\ args.properties.t = "props"
    /\ \A i \in 1..Len(args.properties.pairs) : ~TitleTyped(args.properties.pairs[i].val)

TitleMissing == PyStr("Database must have at least one title property")

CreateCallOnlyWhenValid ==
    (CreatingDatabase /\ calls # <<>>)
    => /\ validate_notion_id(args.parent_id)
       /\ args.properties.t = "props"
       /\ ~SchemaWithoutTitle
       /\ Len(calls) = 1
       /\ calls[1].endpoint = "databases.create"

\* C10 as stated: NOTION_CREATE_DATABASE with a schema that has no title-typed
\* property returns a failure envelope whose error names the missing title
\* property and issues no collaborator call; a create call is issued only
\* when parent_id passes validation and some property is title-typed.
C10_NoTitleAlwaysNamesTitle ==
    /\ (CreatingDatabase /\ SchemaWithoutTitle)
       => pc = "done" /\ ~ret.successful /\ ret.error = TitleMissing /\ calls = <<>>
    /\ CreateCallOnlyWhenValid

\* C10 as amended: with a schema that has no title-typed property the
\* operation returns a failure envelope and issues no collaborator call, and
\* the error names the missing title property when parent_id passes
\* validation (an invalid parent_id is reported first); a create call is
\* issued only when parent_id passes validation and some property is
\* title-typed.
C10_NoTitleFailsWithoutCall ==
    /\ (CreatingDatabase /\ SchemaWithoutTitle)
       => /\ pc = "done" /\ ~ret.successful /\ calls = <<>>
          /\ validate_notion_id(args.parent_id) => ret.error = TitleMissing
          /\ ~validate_notion_id(args.parent_id)
                => ret.error = PyStr("Invalid parent_id format")
    /\ CreateCallOnlyWhenValid

C10_Witness ==
    /\ pc = "done"
    /\ op = "NOTION_CREATE_DATABASE"
    /\ args.parent_id = GoodId
    /\ args.properties = Props(<<[key |-> "Notes", val |-> PlainDict]>>)
    /\ ret = Envelope(FALSE, EmptyMap, TitleMissing)
    /\ calls = <<>>

-----------------------------------------------------------------------------
(* The multi-block append operations.                                      *)

AppendingMany ==
    Finished /\ op \in {"NOTION_ADD_MULTIPLE_PAGE_CONTENT", "NOTION_APPEND_BLOCK_CHILDREN"}

\* the list argument and the identifier argument of the operation at hand
SuppliedList ==
    IF op = "NOTION_ADD_MULTIPLE_PAGE_CONTENT" THEN args.content_blocks ELSE args.children

ParentArg ==
    IF op = "NOTION_ADD_MULTIPLE_PAGE_CONTENT" THEN args.parent_block_id ELSE args.block_id

InvalidParent ==
    IF op = "NOTION_ADD_MULTIPLE_PAGE_CONTENT"
    THEN PyStr("Invalid parent_block_id")
    ELSE PyStr("Invalid block_id")

NotAList == SuppliedList.t # "list"
EmptyList == SuppliedList.t = "list" /\ Len(SuppliedList.items) = 0
Oversized == SuppliedList.t = "list" /\ Len(SuppliedList.items) > MaxBlocks

CitesMaximum == ret.error = PyStr("Maximum 100 blocks per request")

\* what C11 says of the calls: one is issued only for a list of 1 to 100
\* items, a list outside that range fails without a call, and a request
\* that is issued carries at most 100 children
AppendOnlyWithinLimit ==
    /\ calls # <<>>
       => /\ SuppliedList.t = "list"
          /\ Len(SuppliedList.items) \in 1..MaxBlocks
    /\ (NotAList \/ EmptyList \/ Oversized)
       => pc = "done" /\ ~ret.successful /\ calls = <<>>
    /\ \A i \in 1..Len(calls) :
          /\ calls[i].endpoint = "blocks.children.append"
          /\ Len(calls[i].kwargs.children) <= MaxBlocks

\* C11 as stated: the multi-block append operations issue an append call
\* only for a list of 1 to 100 items; an empty list, a non-list or a list of
\* more than 100 items gives a failure envelope and no collaborator call,
\* the error citing the 100-item maximum whenever the list is oversized; a
\* request that is issued carries at most 100 children.
C11_OversizedAlwaysCitesMaximum ==
    AppendingMany
    => /\ AppendOnlyWithinLimit
       /\ Oversized => CitesMaximum

\* C11 as amended: as above, except that the error of an oversized list
\* cites the 100-item maximum when the parent identifier passes validation
\* and reports the invalid identifier otherwise (the identifier is checked
\* first).
C11_OversizedFailsWithoutCall ==
    AppendingMany
    => /\ AppendOnlyWithinLimit
       /\ (Oversized /\ validate_notion_id(ParentArg)) => CitesMaximum
       /\ (Oversized /\ ~validate_notion_id(ParentArg)) => ret.error = InvalidParent

C11_Witness ==
    /\ pc = "done"
    /\ op = "NOTION_APPEND_BLOCK_CHILDREN"
    /\ args.block_id = GoodId
    /\ args.children.t = "list"
    /\ Len(args.children.items) = MaxBlocks + 1
    /\ ret = Envelope(FALSE, EmptyMap, PyStr("Maximum 100 blocks per request"))
    /\ calls = <<>>

-----------------------------------------------------------------------------
(* Creating a comment.                                                     *)

CreatingComment == Finished /\ op = "NOTION_CREATE_COMMENT"

TargetRequired == PyStr("Either discussion_id or parent_page_id must be provided.")

\* the one create call carries the discussion when one was supplied, and
\* otherwise a page parent made of parent_page_id; never both
CarriesOneTarget(kwargs) ==
    IF Truthy(args.discussion_id)
    THEN /\ "discussion_id" \in DOMAIN kwargs
         /\ kwargs.discussion_id = args.discussion_id
         /\ "parent" \notin DOMAIN kwargs
    ELSE /\ "parent" \in DOMAIN kwargs
         /\ kwargs.parent = [type |-> "page_id", page_id |-> args.parent_page_id]
         /\ "discussion_id" \notin DOMAIN kwargs

\* C12: NOTION_CREATE_COMMENT with neither discussion_id nor parent_page_id
\* supplied (both absent or empty) returns a failure envelope citing the
\* requirement and issues no collaborator call; with at least one supplied
\* it issues exactly one create call, which carries discussion_id if that
\* was supplied and otherwise a page parent built from parent_page_id,
\* never both.
C12_CommentTargetDecidesTheCall ==
    CreatingComment
    => IF ~Truthy(args.discussion_id) /\ ~Truthy(args.parent_page_id)
       THEN /\ pc = "done"
            /\ ~ret.successful
            /\ ret.error = TargetRequired
            /\ calls = <<>>
       ELSE /\ Len(calls) = 1
            /\ calls[1].endpoint = "comments.create"
            /\ CarriesOneTarget(calls[1].kwargs)

-----------------------------------------------------------------------------
(* Updating a block.                                                       *)

UpdatingBlock == Finished /\ op = "NOTION_UPDATE_BLOCK"

\* the block types whose default shape is a rich-text run
TextBlockTypes ==
    {"paragraph", "heading_1", "heading_2", "heading_3", "bulleted_list_item",
     "numbered_list_item", "quote", "to_do"}

NoAdditionalProperties ==
    \/ args.additional_properties.t = "none"
    \/ args.additional_properties.t = "dict" /\ DOMAIN args.additional_properties.map = {}

\* {rich_text: [{type: 'text', text: {content: c}}]}
RichTextOf(c) == [rich_text |-> <<[type |-> "text", text |-> [content |-> c]]>>]

\* C13: NOTION_UPDATE_BLOCK with a valid block_id, a block_type among the
\* eight text block types, content c and no additional properties issues
\* exactly one update request whose only field besides block_id is keyed by
\* block_type and equals {rich_text: [{type: 'text', text: {content: c}}]};
\* with any other block_type and no additional properties it returns a
\* failure envelope and issues no collaborator call.
C13_DefaultShapeIsTheTextRun ==
    (UpdatingBlock /\ NoAdditionalProperties)
    => /\ (validate_notion_id(args.block_id) /\ args.block_type \in TextBlockTypes)
          => /\ pc = "done"
             /\ Len(calls) = 1
             /\ calls[1].endpoint = "blocks.update"
             /\ DOMAIN calls[1].kwargs = {"block_id", args.block_type}
             /\ calls[1].kwargs.block_id = args.block_id
             /\ calls[1].kwargs[args.block_type] = RichTextOf(args.content)
       /\ args.block_type \notin TextBlockTypes
          => pc = "done" /\ ~ret.successful /\ calls = <<>>

C13_Witness ==
    /\ pc = "done"
    /\ op = "NOTION_UPDATE_BLOCK"
    /\ args.block_id = GoodId
    /\ args.block_type = "to_do"
    /\ args.content = PyStr("hello")
    /\ args.additional_properties = None
    /\ Len(calls) = 1
    /\ calls[1].kwargs.to_do = RichTextOf(PyStr("hello"))

-----------------------------------------------------------------------------
(* The combined fetch.                                                     *)

FetchingData == Finished /\ op = "NOTION_FETCH_DATA"

OneSearchCall == pc = "done" /\ Len(calls) = 1 /\ calls[1].endpoint = "search"

NoObjectFilter == "filter" \notin DOMAIN calls[1].kwargs

FiltersOn(value) ==
    /\ "filter" \in DOMAIN calls[1].kwargs
    /\ calls[1].kwargs.filter = [property |-> "object", value |-> value]

-----------------------------------------------------------------------------
(* The chain of calls of one aggregation (SpecAgg).                        *)

SubjectKey == IF op = "_collect_all_pages_query" THEN "database_id" ELSE "block_id"

PageEndpoint ==
    IF op = "_collect_all_pages_query" THEN "databases.query" ELSE "blocks.children.list"

CarriesSubject(kwargs) ==
    /\ {SubjectKey, "page_size"} \subseteq DOMAIN kwargs
    /\ kwargs[SubjectKey] = args.subject
    /\ kwargs.page_size = args.page_size

\* the first call has no cursor; call i+1 follows a successful call i and
\* carries exactly the cursor that call returned
Chained ==
    (Aggregating /\ calls # <<>>)
    => /\ \A i \in 1..Len(calls) :
             calls[i].endpoint = PageEndpoint /\ CarriesSubject(calls[i].kwargs)
       /\ DOMAIN calls[1].kwargs = {SubjectKey, "page_size"}
       /\ \A i \in 1..(Len(calls) - 1) :
             /\ PageOk(calls[i])
             /\ DOMAIN calls[i + 1].kwargs = {SubjectKey, "page_size", "start_cursor"}
             /\ calls[i + 1].kwargs.start_cursor = CursorOf(calls[i])

\* a call is issued only by an aggregation under way, one at a time, after
\* the calls before it have returned, the last of them successfully
OneCallAtATime ==
    (Len(calls') > Len(calls))
    => /\ pc = "loop"
       /\ Len(calls') = Len(calls) + 1
       /\ SubSeq(calls', 1, Len(calls)) = calls
       /\ calls # <<>> => PageOk(calls[Len(calls)])

\* C16: within one aggregation the calls are strictly sequential and
\* chained: the first carries the subject identifier and page_size and no
\* cursor; call i+1 is issued only after call i has returned successfully
\* and carries the same subject identifier and page_size plus exactly the
\* cursor call i returned; no cursor is reused, skipped or sent out of order.
C16_CallsAreChainedByCursor ==
    /\ []Chained
    /\ [][OneCallAtATime]_vars

C16_Witness ==
    /\ Aggregating
    /\ pc = "done"
    /\ Len(calls) = 3
    /\ "start_cursor" \notin DOMAIN calls[1].kwargs
    /\ CursorOf(calls[1]) = PyStr("c1")
    /\ calls[2].kwargs.start_cursor = PyStr("c1")
    /\ CursorOf(calls[2]) = PyStr("c2")
    /\ calls[3].kwargs.start_cursor = PyStr("c2")

-----------------------------------------------------------------------------
(* Updating a page.                                                        *)

UpdatingPage ==
    Finished /\ op = "NOTION_UPDATE_PAGE" /\ validate_notion_id(args.page_id)

WithTitle == args.title.t = "str" /\ args.title.s # ""

\* the properties the retrieve call handed back, none when it failed or
\* the page has none
RetrievedPairs ==
    IF PageOk(calls[1]) /\ calls[1].resp.val.properties.t = "props"
    THEN calls[1].resp.val.properties.pairs
    ELSE <<>>

\* the key of the first retrieved property with a title field, or "Name"
RetrievedTitleKey ==
    LET pairs == RetrievedPairs
        titled == {i \in 1..Len(pairs) : TitleTyped(pairs[i].val)}
    IN  IF titled = {} THEN "Name"
        ELSE pairs[CHOOSE i \in titled : \A j \in titled : i <= j].key

NewTitle == [title |-> <<[text |-> [content |-> args.title]]>>]

GivenProperties ==
    IF args.properties.t = "dict" THEN args.properties.map ELSE <<>>

\* one retrieve of the page, then one update carrying a properties field
RetrieveThenUpdate ==
    /\ pc = "done"
    /\ Len(calls) = 2
    /\ calls[1].endpoint = "pages.retrieve"
    /\ calls[1].kwargs = [page_id |-> args.page_id]
    /\ calls[2].endpoint = "pages.update"
    /\ calls[2].kwargs.page_id = args.page_id
    /\ "properties" \in DOMAIN calls[2].kwargs
    /\ RetrievedTitleKey \in DOMAIN calls[2].kwargs.properties

UpdateOnly ==
    /\ pc = "done"
    /\ Len(calls) = 1
    /\ calls[1].endpoint = "pages.update"
    /\ calls[1].kwargs.page_id = args.page_id

\* C17 as stated: NOTION_UPDATE_PAGE with a valid page_id and a non-empty
\* title issues exactly one page-retrieve call followed by exactly one
\* page-update call, whether or not the retrieve succeeded, and the update's
\* properties hold the new title under the key of the retrieved property
\* that has a title field, or under 'Name' when the retrieve failed or no
\* retrieved property has one.  Without a title it issues exactly one
\* update call and no retrieve.
C17_UpdateAlwaysHoldsNewTitle ==
    UpdatingPage
    => IF WithTitle
       THEN /\ RetrieveThenUpdate
            /\ calls[2].kwargs.properties[RetrievedTitleKey] = NewTitle
       ELSE UpdateOnly

\* C17 as amended: the same, except that an entry of the properties
\* argument under that same key takes the place of the new title (the
\* properties argument is merged last).
C17_UpdateHoldsNewTitleUnlessGiven ==
    UpdatingPage
    => IF WithTitle
       THEN /\ RetrieveThenUpdate
            /\ calls[2].kwargs.properties[RetrievedTitleKey] =
                  IF RetrievedTitleKey \in DOMAIN GivenProperties
                  THEN GivenProperties[RetrievedTitleKey]
                  ELSE NewTitle
       ELSE UpdateOnly

C17_Witness ==
    /\ pc = "done"
    /\ op = "NOTION_UPDATE_PAGE"
    /\ args.page_id = GoodId
    /\ args.title = PyStr("New")
    /\ args.properties = PyDict([Name |-> GivenValue])
    /\ Len(calls) = 2
    /\ PageOk(calls[1])
    /\ calls[2].kwargs.properties.Heading = NewTitle
    /\ calls[2].kwargs.properties.Name = GivenValue

-----------------------------------------------------------------------------
(* Independence of invocations running side by side (SpecPar).             *)

AnswersTo(i) == [k \in 1..Len(calls[i]) |-> calls[i][k].resp]

\* the envelope an aggregation running alone returns when the collaborator
\* answers its calls with rs, in this order; NoRet while it has not returned
RECURSIVE Alone(_, _)
Alone(rs, acc) ==
    IF rs = <<>> THEN NoRet
    ELSE LET r == Head(rs)
         IN  IF r.kind = "fault" THEN Envelope(FALSE, EmptyMap, PyStr(r.msg))
             ELSE LET got == acc \o r.val.results.items
                  IN  IF r.val.next_cursor \in FalsyCursors
                      THEN Envelope(TRUE, [t |-> "collected", results |-> PyList(got)],
                                    None)
                      ELSE Alone(Tail(rs), got)

\* the requests an aggregation running alone issues: its own subject and
\* page_size, and from the second on the cursor its own previous call got
IssuesAsAlone(i) ==
    \A k \in 1..Len(calls[i]) :
        LET idname == IF op[i] = "_collect_all_pages_query" THEN "database_id"
                      ELSE "block_id"
            base == (idname :> args[i].subject) @@ [page_size |-> args[i].page_size]
        IN  calls[i][k].kwargs =
                IF k = 1 THEN base
                ELSE base @@ [start_cursor |-> calls[i][k - 1].resp.val.next_cursor]

AsIfAlone ==
    \A i \in Invocations :
        /\ ret[i] = Alone(AnswersTo(i), <<>>)
        /\ pc[i] = "done" <=> ret[i] # NoRet
        /\ IssuesAsAlone(i)

\* what belongs to invocation i
Own(i) == <<pc[i], op[i], args[i], calls[i], ret[i], all_results[i], start_cursor[i]>>
OwnNext(i) ==
    <<pc'[i], op'[i], args'[i], calls'[i], ret'[i], all_results'[i], start_cursor'[i]>>

\* a step writes what belongs to one invocation at most
WritesOneInvocation ==
    \A i, j \in Invocations :
        (Own(i) # OwnNext(i) /\ Own(j) # OwnNext(j)) => i = j

\* C15: invocations are independent: for any interleaving of the page
\* fetches of aggregations running side by side, on the same or on different
\* subjects, each issues the requests and returns exactly the envelope it
\* would running alone against the same collaborator answers, and no step
\* of one invocation writes the accumulator, cursor or envelope of another.
C15_InvocationsAreIndependent ==
    /\ []AsIfAlone
    /\ [][WritesOneInvocation]_vars

\* two aggregations on the same subject, their page fetches interleaved,
\* each with the listing it was answered with
C15_Witness ==
    /\ pc[1] = "done" /\ pc[2] = "done"
    /\ args[1].subject = args[2].subject
    /\ Len(calls[1]) = 2 /\ Len(calls[2]) = 2
    /\ ret[1] = Envelope(TRUE, [t |-> "collected", results |-> PyList(<<"i1", "i1">>)], None)
    /\ ret[2] = Envelope(TRUE, [t |-> "collected", results |-> PyList(<<"i1", "i2">>)], None)

====
